---- MODULE Spec2Model ----
(***************************************************************************)
(* Verification model of the YAML language server's document engine:      *)
(*   - YamlDocuments, the per-uri document cache      (SpecCache)          *)
(*   - SingleYAMLDocument's offset -> node resolution (SpecPosition)       *)
(*   - YAMLSChemaValidator, the schema-path validator (SpecValidator)      *)
(* Each part has its own variables, initial condition and next-state       *)
(* relation; the variables of the other parts stay at their idle values.   *)
(***************************************************************************)
EXTENDS Integers, Sequences, FiniteSets, TLC

VARIABLES cache, call, maxRequested, monotone,
          docId, posCall,
          schemaId, astId, cursor, lineCount, errors, status,
          visited, validated, valCall

cacheVars == <<cache, call, maxRequested, monotone>>

positionVars == <<docId, posCall>>

validatorVars == <<schemaId, astId, cursor, lineCount, errors, status,
                   visited, validated, valCall>>

vars == <<cacheVars, positionVars, validatorVars>>

(***************************************************************************)
(* Part 1.  YamlDocuments: the document cache                              *)
(***************************************************************************)

(* Bound of the cache model: the highest TextDocument version requested.   *)
MaxVersion == 1

(* The version a fresh cache entry is created with.                        *)
InitialVersion == -1

Uris == {"file:///a.yaml", "file:///b.yaml"}
(* The versions a TextDocument carries.                                    *)
Versions == 0..MaxVersion

(* The host's TextDocuments, texts as sequences of characters: a file is   *)
(* created holding white space only (version 0) and has content from its   *)
(* first edit on.                                                          *)
TextOf(version) == IF version = 0 THEN <<" ", "\n">> ELSE <<"a", ":">>
TextDocuments ==
    {[uri |-> u, version |-> v, text |-> TextOf(v)] : u \in Uris, v \in Versions}

(* An optional custom-tag list: undefined, or an array of tag names.       *)
UndefinedTags == [defined |-> FALSE, items |-> << >>]
TagArray(items) == [defined |-> TRUE, items |-> items]
TagLists == {TagArray(<<"!a">>), TagArray(<<"!b">>)}

(* The optional parserOptions argument; of ParserOptions the cache reads   *)
(* customTags only (yamlVersion goes to the parser unread).                *)
NoOptions == [given |-> FALSE, customTags |-> UndefinedTags]
ParserOptionsSet ==
    [given : {TRUE}, customTags : TagLists \cup {UndefinedTags}]

(* defaultOptions of the parser module: an empty custom-tag list.          *)
defaultOptions == [given |-> TRUE, customTags |-> TagArray(<< >>)]

(* isArrayEqual: element-wise comparison; a missing array equals nothing.  *)
isArrayEqual(fst, snd) ==
    IF ~fst.defined \/ ~snd.defined THEN FALSE
    ELSE /\ Len(fst.items) = Len(snd.items)
         /\ \A i \in 1..Len(fst.items) : fst.items[i] = snd.items[i]

(* /\S/.test(text)                                                         *)
IsSpace(ch) == ch \in {" ", "\t", "\n", "\r"}
HasNonSpace(text) == \E i \in 1..Len(text) : ~IsSpace(text[i])

(* new YAMLDocument([], []): the document of an entry never parsed.        *)
EmptyDocument == [parsed |-> FALSE, text |-> << >>,
                  customTags |-> UndefinedTags,
                  uri |-> "", version |-> InitialVersion]

(* parseYAML(text, parserOptions): the parsed document records what was    *)
(* parsed; uri and version name the TextDocument the text came from.       *)
parseYAML(text, parserOptions, document) ==
    [parsed |-> TRUE, text |-> text,
     customTags |-> parserOptions.customTags,
     uri |-> document.uri, version |-> document.version]

(* cache.has(key) fails: a fresh entry is set.                             *)
FreshEntry == [present |-> TRUE, version |-> InitialVersion,
               document |-> EmptyDocument, parserOptions |-> defaultOptions]

(* A uri the cache map has no key for.                                     *)
NoEntry == [FreshEntry EXCEPT !.present = FALSE]

(* A slip in the version test: only a stored version newer than the        *)
(* requested one invalidates.                                              *)
NeedsReparse_NewerOnly(cacheEntry, document, parserOptions) ==
    \/ cacheEntry.version > document.version
    \/ /\ parserOptions.customTags.defined
       /\ ~isArrayEqual(cacheEntry.parserOptions.customTags,
                        parserOptions.customTags)

(* The condition of ensureCache under which the text is parsed again.      *)
NeedsReparse(cacheEntry, document, parserOptions) ==
    \/ cacheEntry.version # document.version
    \/ /\ parserOptions.customTags.defined
       /\ ~isArrayEqual(cacheEntry.parserOptions.customTags,
                        parserOptions.customTags)

(* The text handed to the parser.                                          *)
TextToParse(text, addRootObject) ==
    IF addRootObject /\ ~HasNonSpace(text)
    THEN <<"{">> \o text \o <<"}">>
    ELSE text

(* ensureCache: the entry of document.uri after the call.                  *)
ensureCache(cacheEntry, document, parserOptions, addRootObject) ==
    IF NeedsReparse(cacheEntry, document, parserOptions)
    THEN [present |-> TRUE,
          version |-> document.version,
          document |-> parseYAML(TextToParse(document.text, addRootObject),
                                 parserOptions, document),
          parserOptions |-> parserOptions]
    ELSE cacheEntry

NoCall == [made |-> FALSE, uri |-> "", version |-> InitialVersion,
           parserOptions |-> NoOptions, hadEntry |-> FALSE,
           storedVersion |-> InitialVersion, storedTags |-> UndefinedTags,
           reparsed |-> FALSE, returned |-> EmptyDocument,
           repeat |-> FALSE, sameDocument |-> FALSE]

Max(a, b) == IF a >= b THEN a ELSE b

(* getYamlDocument(document, parserOptions?, addRootObject)                *)
getYamlDocument(document, parserOptions, addRootObject) ==
    LET options == IF parserOptions.given THEN parserOptions
                   ELSE defaultOptions
        key == document.uri
        hadEntry == cache[key].present
        before == IF hadEntry THEN cache[key] ELSE FreshEntry
        reparse == NeedsReparse(before, document, options)
        after == ensureCache(before, document, options, addRootObject)
    IN /\ cache' = [cache EXCEPT ![key] = after]
       /\ call' = [made |-> TRUE, uri |-> key, version |-> document.version,
                   parserOptions |-> parserOptions,
                   hadEntry |-> hadEntry,
                   storedVersion |-> before.version,
                   storedTags |-> before.parserOptions.customTags,
                   reparsed |-> reparse,
                   returned |-> after.document,
                   repeat |-> /\ call.made
                              /\ call.uri = key
                              /\ call.version = document.version
                              /\ call.parserOptions = parserOptions,
                   sameDocument |-> /\ ~reparse
                                    /\ call.made
                                    /\ after.document = call.returned]
       /\ monotone' = [monotone EXCEPT
                         ![key] = @ /\ document.version >= maxRequested[key]]
       /\ maxRequested' = [maxRequested EXCEPT
                             ![key] = Max(@, document.version)]
       /\ UNCHANGED <<positionVars, validatorVars>>

GetYamlDocument ==
    \E document \in TextDocuments,
       parserOptions \in ParserOptionsSet \cup {NoOptions},
       addRootObject \in BOOLEAN :
        getYamlDocument(document, parserOptions, addRootObject)

(* clear(): drops every entry.                                             *)
Clear ==
    /\ cache' = [u \in Uris |-> NoEntry]
    /\ UNCHANGED <<call, maxRequested, monotone, positionVars, validatorVars>>

(* ---- Claims about the cache ------------------------------------------ *)

(* C1 as stated: whatever versions the callers choose, no call returns a   *)
(* document parsed for a version lower than the highest version requested  *)
(* so far for its uri.                                                     *)
C1_NeverBelowHighestRequested ==
    call.made =>
        /\ call.returned.parsed
        /\ call.returned.version >= maxRequested[call.uri]

(* C1 amended: as long as the versions requested for a uri never decrease, *)
(* every call for it returns a document parsed from that uri's text at a   *)
(* version not lower than the highest version requested so far.            *)
C1_MonotoneRequestsNeverStale ==
    (call.made /\ monotone[call.uri]) =>
        /\ call.returned.parsed
        /\ call.returned.uri = call.uri
        /\ call.returned.version >= maxRequested[call.uri]

(* A call answered from the cache after the uri's version had been bumped. *)
C1_Witness ==
    /\ call.made
    /\ monotone[call.uri]
    /\ ~call.reparsed
    /\ call.version = MaxVersion
    /\ maxRequested[call.uri] = MaxVersion

(* The custom tags a request or an entry carries: none when undefined.     *)
CarriedTags(customTags) == IF customTags.defined THEN customTags.items ELSE << >>

(* C2 as stated: a call reparses exactly when the uri had no entry, or the *)
(* stored version differs from the requested one, or the stored tag list   *)
(* differs from the requested one (a request without custom tags after one *)
(* with some included); and a call repeating the previous call's           *)
(* (uri, version, parserOptions) returns the same document unparsed.       *)
C2_ReparseExactlyOnMismatch ==
    call.made =>
        /\ call.reparsed <=>
              \/ ~call.hadEntry
              \/ call.storedVersion # call.version
              \/ CarriedTags(call.storedTags)
                    # CarriedTags(call.parserOptions.customTags)
        /\ call.repeat => (~call.reparsed /\ call.sameDocument)


(***************************************************************************)
(* Part 2.  SingleYAMLDocument: resolving an offset to a node              *)
(***************************************************************************)

(* Nodes of a parsed document, in the order visit() reaches them           *)
(* (pre-order).  range is the parser's [start, value end, node end];       *)
(* a Pair carries no range.  parent 0 is the Document itself.              *)
MapNode(start, valueEnd, nodeEnd, parent) ==
    [kind |-> "map", ranged |-> TRUE, range |-> <<start, valueEnd, nodeEnd>>,
     parent |-> parent, isNull |-> FALSE]
SeqNode(start, valueEnd, nodeEnd, parent) ==
    [kind |-> "seq", ranged |-> TRUE, range |-> <<start, valueEnd, nodeEnd>>,
     parent |-> parent, isNull |-> FALSE]
ScalarNode(start, valueEnd, nodeEnd, parent) ==
    [kind |-> "scalar", ranged |-> TRUE,
     range |-> <<start, valueEnd, nodeEnd>>,
     parent |-> parent, isNull |-> FALSE]
NullNode(start, valueEnd, nodeEnd, parent) ==
    [kind |-> "scalar", ranged |-> TRUE,
     range |-> <<start, valueEnd, nodeEnd>>,
     parent |-> parent, isNull |-> TRUE]
PairNode(parent) ==
    [kind |-> "pair", ranged |-> FALSE, range |-> <<0, 0, 0>>,
     parent |-> parent, isNull |-> FALSE]

(* The documents resolved: each a text with the tree the parser builds     *)
(* for it.  contents is the root node (0: a document without contents).    *)
Documents == <<
    (* 1: "a:\n  b: 1" *)
    [text |-> <<"a", ":", "\n", " ", " ", "b", ":", " ", "1">>,
     range |-> <<0, 9, 9>>, contents |-> 1,
     nodes |-> << MapNode(0, 9, 9, 0), PairNode(1), ScalarNode(0, 1, 1, 2),
                  MapNode(5, 9, 9, 2), PairNode(4), ScalarNode(5, 6, 6, 5),
                  ScalarNode(8, 9, 9, 5) >>],
    (* 2: "#c\na: 1", a comment line before the contents *)
    [text |-> <<"#", "c", "\n", "a", ":", " ", "1">>,
     range |-> <<3, 7, 7>>, contents |-> 1,
     nodes |-> << MapNode(3, 7, 7, 0), PairNode(1), ScalarNode(3, 4, 4, 2),
                  ScalarNode(6, 7, 7, 2) >>],
    (* 3: "a: 1\n\nb: 2\n", an empty line between two pairs *)
    [text |-> <<"a", ":", " ", "1", "\n", "\n", "b", ":", " ", "2", "\n">>,
     range |-> <<0, 11, 11>>, contents |-> 1,
     nodes |-> << MapNode(0, 11, 11, 0), PairNode(1), ScalarNode(0, 1, 1, 2),
                  ScalarNode(3, 4, 5, 2), PairNode(1), ScalarNode(6, 7, 7, 5),
                  ScalarNode(9, 10, 11, 5) >>],
    (* 4: "a:\n  b: 1\n  ", a last line of two spaces *)
    [text |-> <<"a", ":", "\n", " ", " ", "b", ":", " ", "1", "\n", " ", " ">>,
     range |-> <<0, 10, 12>>, contents |-> 1,
     nodes |-> << MapNode(0, 10, 10, 0), PairNode(1), ScalarNode(0, 1, 1, 2),
                  MapNode(5, 10, 10, 2), PairNode(4), ScalarNode(5, 6, 6, 5),
                  ScalarNode(8, 9, 10, 5) >>],
    (* 5: "a:\n- b\n ", a sequence at column 0 under a key *)
    [text |-> <<"a", ":", "\n", "-", " ", "b", "\n", " ">>,
     range |-> <<0, 7, 8>>, contents |-> 1,
     nodes |-> << MapNode(0, 7, 7, 0), PairNode(1), ScalarNode(0, 1, 1, 2),
                  SeqNode(3, 7, 7, 2), ScalarNode(5, 6, 7, 4) >>],
    (* 6: "a:\n  b:\n", a key with an empty (null) value *)
    [text |-> <<"a", ":", "\n", " ", " ", "b", ":", "\n">>,
     range |-> <<0, 8, 8>>, contents |-> 1,
     nodes |-> << MapNode(0, 8, 8, 0), PairNode(1), ScalarNode(0, 1, 1, 2),
                  MapNode(5, 8, 8, 2), PairNode(4), ScalarNode(5, 6, 6, 5),
                  NullNode(7, 7, 8, 5) >>],
    (* 7: "  a: 1\n", an indented root mapping *)
    [text |-> <<" ", " ", "a", ":", " ", "1", "\n">>,
     range |-> <<2, 7, 7>>, contents |-> 1,
     nodes |-> << MapNode(2, 7, 7, 0), PairNode(1), ScalarNode(2, 3, 3, 2),
                  ScalarNode(5, 6, 7, 2) >>],
    (* 8: "[a,b]", a flow sequence *)
    [text |-> <<"[", "a", ",", "b", "]">>,
     range |-> <<0, 5, 5>>, contents |-> 1,
     nodes |-> << SeqNode(0, 5, 5, 0), ScalarNode(1, 2, 2, 1),
                  ScalarNode(3, 4, 4, 1) >>],
    (* 9: "", nothing parsed *)
    [text |-> << >>, range |-> <<0, 0, 0>>, contents |-> 0, nodes |-> << >>]
  >>

DocIds == 1..Len(Documents)

(* ---- TextBuffer ------------------------------------------------------- *)

(* The offsets at which lines start.                                       *)
LineOffsets(text) == {0} \cup {s \in 1..Len(text) : text[s] = "\n"}

(* textBuffer.getPosition(offset): the line holding the offset and the     *)
(* offset's column in it.                                                  *)
getPosition(text, offset) ==
    LET starts == {s \in LineOffsets(text) : s <= offset}
        lineStart == CHOOSE s \in starts : \A t \in starts : t <= s
    IN [line |-> Cardinality(starts) - 1, character |-> offset - lineStart]

(* textBuffer.getLineContent(line): the line with its line break.          *)
getLineContent(text, line) ==
    LET offsets == LineOffsets(text)
        start == CHOOSE s \in offsets :
                    Cardinality({t \in offsets : t < s}) = line
        later == {t \in offsets : t > start}
        next == IF later = {} THEN Len(text)
                ELSE CHOOSE t \in later : \A u \in later : t <= u
    IN SubSeq(text, start + 1, next)

(* lineContent.trim().length === 0                                         *)
IsBlank(lineContent) == \A i \in 1..Len(lineContent) : IsSpace(lineContent[i])

(* getIndentation(lineContent, position): the column of the first          *)
(* character before position that is no space or tab, else position.       *)
getIndentation(lineContent, position) ==
    IF Len(lineContent) < position THEN 0
    ELSE LET solid == {i \in 0..(position - 1) :
                          lineContent[i + 1] \notin {" ", "\t"}}
         IN IF solid = {} THEN position
            ELSE CHOOSE i \in solid : \A j \in solid : i <= j

(* getParent(document, node): undefined (0) for the document's contents.   *)
getParent(doc, node) == doc.nodes[node].parent

(* ---- getNodeFromPosition ---------------------------------------------- *)

(* A mistaken range test that forgets the range's end.                     *)
RangeContains_StartOnly(range, positionOffset) == range[1] <= positionOffset

(* range[0] <= positionOffset && range[1] >= positionOffset                *)
RangeContains(range, positionOffset) ==
    range[1] <= positionOffset /\ range[2] >= positionOffset

(* A visitor that keeps the first containing node instead of the last.     *)
Assign_KeepFirst(closestNode, node) == IF closestNode = 0 THEN node ELSE closestNode

(* closestNode = node                                                      *)
Assign(closestNode, node) == node

(* visit(this.internalDocument, ...) of getNodeFromPosition from node i    *)
(* on.  skipped holds the nodes visit does not descend into: those the     *)
(* visitor answered visit.SKIP for, and the nodes below them.              *)
RECURSIVE PositionVisit(_, _, _, _, _)
PositionVisit(doc, positionOffset, i, closestNode, skipped) ==
    IF i > Len(doc.nodes) THEN closestNode
    ELSE LET node == doc.nodes[i]
         IN IF node.parent \in skipped
            THEN PositionVisit(doc, positionOffset, i + 1, closestNode,
                               skipped \cup {i})
            ELSE IF ~node.ranged
            THEN PositionVisit(doc, positionOffset, i + 1, closestNode, skipped)
            ELSE IF RangeContains(node.range, positionOffset)
            THEN PositionVisit(doc, positionOffset, i + 1,
                               Assign(closestNode, i), skipped)
            ELSE PositionVisit(doc, positionOffset, i + 1, closestNode,
                               skipped \cup {i})

(* ---- findClosestNode -------------------------------------------------- *)

Abs(x) == IF x < 0 THEN -x ELSE x

(* A scan that takes a node only when it is strictly closer.               *)
ScanAccepts_Strict(maxOffset, offsetDiff, start, diff) ==
    maxOffset <= start /\ diff < offsetDiff

(* maxOffset <= range[0] && diff <= offsetDiff                             *)
ScanAccepts(maxOffset, offsetDiff, start, diff) ==
    maxOffset <= start /\ diff <= offsetDiff

(* visit(this.internalDocument, ...) of findClosestNode from node i on.    *)
RECURSIVE ClosestVisit(_, _, _, _)
ClosestVisit(doc, offset, i, scan) ==
    IF i > Len(doc.nodes) THEN scan
    ELSE LET node == doc.nodes[i]
             diff == Abs(node.range[3] - offset)
         IN IF node.ranged
               /\ ScanAccepts(scan.maxOffset, scan.offsetDiff, node.range[1], diff)
            THEN ClosestVisit(doc, offset, i + 1,
                              [offsetDiff |-> diff, maxOffset |-> node.range[1],
                               closestNode |-> i])
            ELSE ClosestVisit(doc, offset, i + 1, scan)

(* A walk that takes a node only when its column is the indentation.       *)
Accepts_ColumnOnly(character, indentation) == character = indentation

(* The negation of                                                         *)
(*   position.character !== indentation && position.character > 0          *)
Accepts(character, indentation) ==
    ~(character # indentation /\ character > 0)

(* getProperParentByIndentation; steps counts the parent links followed.   *)
RECURSIVE getProperParentByIndentation(_, _, _, _)
getProperParentByIndentation(doc, indentation, node, steps) ==
    IF node = 0 THEN [node |-> doc.contents, steps |-> steps]
    ELSE IF doc.nodes[node].ranged
    THEN LET position == getPosition(doc.text, doc.nodes[node].range[1])
         IN IF ~Accepts(position.character, indentation)
            THEN LET parent == getParent(doc, node)
                 IN IF parent # 0
                    THEN getProperParentByIndentation(doc, indentation, parent,
                                                      steps + 1)
                    ELSE [node |-> node, steps |-> steps]
            ELSE [node |-> node, steps |-> steps]
    ELSE IF doc.nodes[node].kind = "pair"
    THEN getProperParentByIndentation(doc, indentation, getParent(doc, node),
                                      steps + 1)
    ELSE [node |-> node, steps |-> steps]

(* findClosestNode(offset, textBuffer): the node returned, with the node   *)
(* the scan selected, whether the parent walk ran, and its length.         *)
findClosestNode(doc, offset) ==
    LET scan == ClosestVisit(doc, offset, 1,
                             [offsetDiff |-> doc.range[3],
                              maxOffset |-> doc.range[1], closestNode |-> 0])
        closestNode == scan.closestNode
        position == getPosition(doc.text, offset)
        lineContent == getLineContent(doc.text, position.line)
        indentation == getIndentation(lineContent, position.character)
        walk == getProperParentByIndentation(doc, indentation, closestNode, 0)
    IN IF closestNode # 0 /\ doc.nodes[closestNode].kind = "scalar"
          /\ doc.nodes[closestNode].isNull
       THEN [node |-> closestNode, scanned |-> closestNode,
             walked |-> FALSE, steps |-> 0]
       ELSE IF indentation = position.character
       THEN [node |-> walk.node, scanned |-> closestNode,
             walked |-> TRUE, steps |-> walk.steps]
       ELSE [node |-> closestNode, scanned |-> closestNode,
             walked |-> FALSE, steps |-> 0]

(* getNodeFromPosition(positionOffset, textBuffer): [node, blank-line flag] *)
getNodeFromPosition(doc, positionOffset) ==
    LET position == getPosition(doc.text, positionOffset)
        lineContent == getLineContent(doc.text, position.line)
    IN IF IsBlank(lineContent)
       THEN [node |-> findClosestNode(doc, positionOffset).node, blank |-> TRUE]
       ELSE [node |-> PositionVisit(doc, positionOffset, 1, 0, {}),
             blank |-> FALSE]

NoPosCall == [op |-> "none", offset |-> 0, node |-> 0, blank |-> FALSE,
              scanned |-> 0, walked |-> FALSE, steps |-> 0]

(* A request resolves an offset of the document.                           *)
GetNodeFromPosition ==
    \E positionOffset \in 0..Len(Documents[docId].text) :
        LET result == getNodeFromPosition(Documents[docId], positionOffset)
        IN /\ posCall' = [NoPosCall EXCEPT !.op = "getNodeFromPosition",
                                           !.offset = positionOffset,
                                           !.node = result.node,
                                           !.blank = result.blank]
           /\ UNCHANGED <<docId, cacheVars, validatorVars>>

(* findClosestNode called on its own.                                      *)
FindClosestNode ==
    \E offset \in 0..Len(Documents[docId].text) :
        LET result == findClosestNode(Documents[docId], offset)
        IN /\ posCall' = [op |-> "findClosestNode", offset |-> offset,
                          node |-> result.node, blank |-> FALSE,
                          scanned |-> result.scanned, walked |-> result.walked,
                          steps |-> result.steps]
           /\ UNCHANGED <<docId, cacheVars, validatorVars>>

(* ---- Claims about the position index ---------------------------------- *)

CurrentDoc == Documents[docId]

(* The node's range (start to value end, both inclusive) holds the offset. *)
InRange(doc, n, offset) ==
    /\ doc.nodes[n].ranged
    /\ doc.nodes[n].range[1] <= offset
    /\ offset <= doc.nodes[n].range[2]

RECURSIVE IsAncestor(_, _, _)
IsAncestor(doc, a, n) ==
    /\ n # 0
    /\ \/ doc.nodes[n].parent = a
       \/ IsAncestor(doc, a, doc.nodes[n].parent)

(* The nearest ancestor that carries a range (0: none).                    *)
RECURSIVE RangedParent(_, _)
RangedParent(doc, n) ==
    LET parent == doc.nodes[n].parent
    IN IF parent = 0 THEN 0
       ELSE IF doc.nodes[parent].ranged THEN parent
       ELSE RangedParent(doc, parent)

(* Every range lies within the range of the nearest ranged ancestor.       *)
ProperlyNested(doc) ==
    \A n \in 1..Len(doc.nodes) :
        (doc.nodes[n].ranged /\ RangedParent(doc, n) # 0) =>
            LET outer == doc.nodes[RangedParent(doc, n)].range
                inner == doc.nodes[n].range
            IN outer[1] <= inner[1] /\ inner[2] <= outer[2]

RootContains(doc, offset) ==
    doc.contents # 0 /\ InRange(doc, doc.contents, offset)

C4_InnermostContainingNode ==
    (/\ posCall.op = "getNodeFromPosition"
     /\ ~posCall.blank
     /\ ProperlyNested(CurrentDoc)
     /\ \E n \in 1..Len(CurrentDoc.nodes) :
            InRange(CurrentDoc, n, posCall.offset)) =>
        /\ posCall.node # 0
        /\ InRange(CurrentDoc, posCall.node, posCall.offset)
        /\ \A m \in 1..Len(CurrentDoc.nodes) :
              IsAncestor(CurrentDoc, posCall.node, m) =>
                  ~InRange(CurrentDoc, m, posCall.offset)
        /\ (docId = 1 /\ posCall.offset = 8) => posCall.node = 7

(* The offset of the 1 in "a:\n  b: 1" resolved to the scalar.             *)
C4_Witness ==
    /\ posCall.op = "getNodeFromPosition"
    /\ docId = 1
    /\ posCall.offset = 8
    /\ posCall.node = 7
    /\ InRange(CurrentDoc, 1, 8) /\ InRange(CurrentDoc, 4, 8)

RangedNodes(doc) == {n \in 1..Len(doc.nodes) : doc.nodes[n].ranged}

(* |node.end - offset|                                                     *)
Distance(doc, n, offset) ==
    LET d == doc.nodes[n].range[3] - offset IN IF d < 0 THEN -d ELSE d

(* C8: the scan of findClosestNode selects a ranged node of minimal        *)
(* |node.end - offset|, and among those of minimal distance one of the     *)
(* largest start offset.                                                   *)
C8_ClosestNodeScan ==
    (posCall.op = "findClosestNode" /\ RangedNodes(CurrentDoc) # {}) =>
        /\ posCall.scanned \in RangedNodes(CurrentDoc)
        /\ \A m \in RangedNodes(CurrentDoc) :
              /\ Distance(CurrentDoc, posCall.scanned, posCall.offset)
                    <= Distance(CurrentDoc, m, posCall.offset)
              /\ Distance(CurrentDoc, m, posCall.offset)
                    = Distance(CurrentDoc, posCall.scanned, posCall.offset)
                 => CurrentDoc.nodes[m].range[1]
                        <= CurrentDoc.nodes[posCall.scanned].range[1]

(* Several nodes at the minimal distance, starting at different offsets.   *)
C8_Witness ==
    /\ posCall.op = "findClosestNode"
    /\ posCall.scanned # 0
    /\ \E m \in RangedNodes(CurrentDoc) :
          /\ Distance(CurrentDoc, m, posCall.offset)
                = Distance(CurrentDoc, posCall.scanned, posCall.offset)
          /\ CurrentDoc.nodes[m].range[1]
                < CurrentDoc.nodes[posCall.scanned].range[1]

(* The cursor's column and the indentation column of its line.             *)
CursorColumn(doc, offset) == getPosition(doc.text, offset).character
IndentationColumn(doc, offset) ==
    getIndentation(getLineContent(doc.text, getPosition(doc.text, offset).line),
                   CursorColumn(doc, offset))

StartColumn(doc, n) == getPosition(doc.text, doc.nodes[n].range[1]).character

(* The closest node with its ancestors.                                    *)
ParentChain(doc, n) ==
    IF n = 0 THEN {}
    ELSE {n} \cup {a \in 1..Len(doc.nodes) : IsAncestor(doc, a, n)}

SetMax(S) == CHOOSE x \in S : \A y \in S : y <= x
SetMin(S) == CHOOSE x \in S : \A y \in S : x <= y

(* The first node of the chain (nearest the closest node) among good, or   *)
(* otherwise: the document root.                                           *)
FirstOnChainOrRoot(doc, n, good) ==
    IF good # {} THEN SetMax(good) ELSE doc.contents

ScannedIsNull(doc, n) ==
    n # 0 /\ doc.nodes[n].kind = "scalar" /\ doc.nodes[n].isNull

(* C9 as stated: unless the closest node is a null scalar, findClosestNode *)
(* returns the first node on the closest node's parent chain whose start   *)
(* column is the indentation column of the cursor's line, or the document  *)
(* root when there is none, whatever the cursor's column.                  *)
C9_FirstNodeAtIndentation ==
    (/\ posCall.op = "findClosestNode"
     /\ ~ScannedIsNull(CurrentDoc, posCall.scanned)) =>
        posCall.node =
            FirstOnChainOrRoot(CurrentDoc, posCall.scanned,
                {m \in ParentChain(CurrentDoc, posCall.scanned) :
                    /\ CurrentDoc.nodes[m].ranged
                    /\ StartColumn(CurrentDoc, m)
                          = IndentationColumn(CurrentDoc, posCall.offset)})

(* C9 amended: unless the closest node is a null scalar, findClosestNode   *)
(* returns, when the cursor's column is the indentation column of its line *)
(* (as on every whitespace-only line), the first node on the closest       *)
(* node's parent chain (range-less pairs skipped) whose start column is    *)
(* the indentation column or column 0, or the document root when there is  *)
(* none, after at most one parent step per node; when the cursor's column  *)
(* is past the indentation, it returns the closest node itself.            *)
C9_FirstNodeAtIndentationOrColumnZero ==
    (/\ posCall.op = "findClosestNode"
     /\ ~ScannedIsNull(CurrentDoc, posCall.scanned)) =>
        IF CursorColumn(CurrentDoc, posCall.offset)
              = IndentationColumn(CurrentDoc, posCall.offset)
        THEN /\ posCall.walked
             /\ posCall.steps <= Len(CurrentDoc.nodes)
             /\ posCall.node =
                  FirstOnChainOrRoot(CurrentDoc, posCall.scanned,
                    {m \in ParentChain(CurrentDoc, posCall.scanned) :
                        /\ CurrentDoc.nodes[m].ranged
                        /\ StartColumn(CurrentDoc, m)
                             \in {0, IndentationColumn(CurrentDoc,
                                                       posCall.offset)}})
        ELSE ~posCall.walked /\ posCall.node = posCall.scanned

(* The walk climbed from a scalar to a nested mapping at the cursor's      *)
(* indentation.                                                            *)
C9_Witness ==
    /\ posCall.op = "findClosestNode"
    /\ posCall.walked
    /\ posCall.steps >= 2
    /\ posCall.node # 0
    /\ posCall.node # CurrentDoc.contents
    /\ StartColumn(CurrentDoc, posCall.node)
          = IndentationColumn(CurrentDoc, posCall.offset)
    /\ IndentationColumn(CurrentDoc, posCall.offset) > 0

(***************************************************************************)
(* Part 3.  YAMLSChemaValidator: validating nodes against the schema graph *)
(***************************************************************************)

(* kuberSchema: key name -> schema entries, each a declared type and the   *)
(* names of its child keys.  Every child key has an entry of its own.      *)
Entry(type, children) == [type |-> type, children |-> children]

Schemas == <<
    [kind |-> << Entry("string", << >>) >>,
     spec |-> << Entry("object", <<"replicas">>) >>,
     replicas |-> << Entry("integer", << >>) >>],
    [metadata |-> << Entry("object", <<"name">>) >>,
     name |-> << Entry("string", << >>) >>,
     spec |-> << Entry("object", <<"template", "replicas">>),
                 Entry("object", <<"replicas">>) >>,
     template |-> << Entry("object", <<"metadata", "spec">>) >>,
     replicas |-> << Entry("integer", << >>), Entry("string", << >>) >>]
  >>

(* Nodes of a document as the traversal reaches them (pre-order; mapping   *)
(* keys are not visited).  parent 0: no parent.                            *)
Map(parent) == [kind |-> "MAP", parent |-> parent, key |-> "", type |-> ""]
Mapping(parent, key) ==
    [kind |-> "MAPPING", parent |-> parent, key |-> key, type |-> ""]
(* A scalar value; type is typeof of the value validate is handed:         *)
(* valueObject when the parser set it, else the string node.value.         *)
Scalar(parent, type) ==
    [kind |-> "SCALAR", parent |-> parent, key |-> "", type |-> type]

Asts == <<
    (* 1: "kind: Pod\nspec:\n  replicas: 3" *)
    << Map(0), Mapping(1, "kind"), Scalar(2, "string"), Mapping(1, "spec"),
       Map(4), Mapping(5, "replicas"), Scalar(6, "number") >>,
    (* 2: "kind: Pod\nspec:\n  replicas: three" *)
    << Map(0), Mapping(1, "kind"), Scalar(2, "string"), Mapping(1, "spec"),
       Map(4), Mapping(5, "replicas"), Scalar(6, "string") >>,
    (* 3: "foo:\n  replicas: 3\nkind: Pod" *)
    << Map(0), Mapping(1, "foo"), Map(2), Mapping(3, "replicas"),
       Scalar(4, "number"), Mapping(1, "kind"), Scalar(6, "string") >>,
    (* 4: "foo:\n  bar: 1\nkind: Pod" *)
    << Map(0), Mapping(1, "foo"), Map(2), Mapping(3, "bar"),
       Scalar(4, "number"), Mapping(1, "kind"), Scalar(6, "string") >>,
    (* 5: "spec:\n  kind: Pod" *)
    << Map(0), Mapping(1, "spec"), Map(2), Mapping(3, "kind"),
       Scalar(4, "string") >>,
    (* 6: "foo: 1\nkind: 5" *)
    << Map(0), Mapping(1, "foo"), Scalar(2, "number"),
       Mapping(1, "kind"), Scalar(4, "number") >>,
    (* 7: "spec:\n  template:\n    spec:\n      replicas: 3" *)
    << Map(0), Mapping(1, "spec"), Map(2), Mapping(3, "template"), Map(4),
       Mapping(5, "spec"), Map(6), Mapping(7, "replicas"),
       Scalar(8, "number") >>,
    (* 8: "spec:\n  template:\n    metadata:\n      name: x\n    replicas: true" *)
    << Map(0), Mapping(1, "spec"), Map(2), Mapping(3, "template"), Map(4),
       Mapping(5, "metadata"), Map(6), Mapping(7, "name"),
       Scalar(8, "string"), Mapping(5, "replicas"), Scalar(10, "boolean") >>
  >>

kuberSchema == Schemas[schemaId]
Ast == Asts[astId]

(* this.kuberSchema[key] !== undefined                                     *)
HasEntry(schema, key) == key \in DOMAIN schema

(* getParentNodes(node): the keys of the mappings above the node, nearest  *)
(* first ("A -> B -> C.  getParentNodes(C) -> [B, A]").                    *)
RECURSIVE getParentNodes(_, _)
getParentNodes(ast, n) ==
    LET parent == ast[n].parent
    IN IF parent = 0 THEN << >>
       ELSE IF ast[parent].kind = "MAPPING"
       THEN <<ast[parent].key>> \o getParentNodes(ast, parent)
       ELSE getParentNodes(ast, parent)

Reverse(seq) == [i \in 1..Len(seq) |-> seq[Len(seq) + 1 - i]]

(* The child keys of all entries of a key, in the order the two nested     *)
(* loops read them.                                                        *)
RECURSIVE ChildrenOf(_)
ChildrenOf(entries) ==
    IF entries = << >> THEN << >>
    ELSE Head(entries).children \o ChildrenOf(Tail(entries))

(* What traverseBackToLocation hands back: schema[key] ("entries"), the    *)
(* empty object ("empty"), or a TypeError thrown on the way ("fault").     *)
Entries(key, bfs, expanded) ==
    [kind |-> "entries", key |-> key, bfs |-> bfs, expanded |-> expanded]
EmptyResult(expanded) ==
    [kind |-> "empty", key |-> "", bfs |-> TRUE, expanded |-> expanded]
Fault(expanded) ==
    [kind |-> "fault", key |-> "", bfs |-> TRUE, expanded |-> expanded]

(* nodeToSearch === parentListReversed[nodeListToSearch.length - 1]        *)
OnPathway(nodeListToSearch, parentListReversed) ==
    /\ Len(nodeListToSearch) <= Len(parentListReversed)
    /\ nodeListToSearch[Len(nodeListToSearch)]
          = parentListReversed[Len(nodeListToSearch)]

(* The while loop of traverseBackToLocation over the queue nodeList.       *)
RECURSIVE SearchLoop(_, _, _, _, _)
SearchLoop(schema, ast, n, nodeList, expanded) ==
    IF nodeList = << >> THEN EmptyResult(expanded)
    ELSE
      LET node == ast[n]
          parentNodeList == getParentNodes(ast, n)
          parentListDepth == Len(parentNodeList)
          parentListReversed == Reverse(parentNodeList)
          nodeListToSearch == Head(nodeList)
          nodeToSearch == nodeListToSearch[Len(nodeListToSearch)]
          atMapDepth == Len(nodeListToSearch) - 1 = parentListDepth
          parentHasKey == node.parent # 0 /\ ast[node.parent].kind = "MAPPING"
          isMap == atMapDepth /\ node.kind = "MAPPING" /\ nodeToSearch = node.key
          isScalar == /\ parentHasKey
                      /\ Len(nodeListToSearch) = parentListDepth
                      /\ nodeToSearch = ast[node.parent].key
          pushed == IF OnPathway(nodeListToSearch, parentListReversed)
                    THEN [i \in 1..Len(ChildrenOf(schema[nodeToSearch])) |->
                            Append(nodeListToSearch,
                                   ChildrenOf(schema[nodeToSearch])[i])]
                    ELSE << >>
      IN IF atMapDepth /\ node.kind # "MAPPING"
         THEN Fault(expanded)                     \* node.key is undefined
         ELSE IF isMap \/ isScalar
         THEN IF HasEntry(schema, nodeToSearch)
              THEN Entries(nodeToSearch, TRUE, expanded)
              ELSE Fault(expanded)                \* undefined handed back
         ELSE IF ~HasEntry(schema, nodeToSearch)
         THEN Fault(expanded)                     \* schema[nodeToSearch].length
         ELSE SearchLoop(schema, ast, n, Tail(nodeList) \o pushed,
                         IF pushed # << >>
                         THEN expanded \cup {nodeListToSearch}
                         ELSE expanded)

(* traverseBackToLocation(node)                                            *)
traverseBackToLocation(schema, ast, n) ==
    LET node == ast[n]
        parentNodeList == getParentNodes(ast, n)
        rootNode == parentNodeList[Len(parentNodeList)]
    IN IF Len(parentNodeList) = 0 /\ node.kind = "MAPPING"
       THEN Entries(node.key, FALSE, {})
       ELSE IF Len(parentNodeList) = 1 /\ node.kind = "SCALAR"
       THEN Entries(ast[node.parent].key, FALSE, {})
       ELSE IF Len(parentNodeList) = 0
       THEN Fault({})                             \* schema[undefined].length
       ELSE IF ~HasEntry(schema, rootNode)
       THEN Fault({})                             \* schema[rootNode].length
       ELSE SearchLoop(schema, ast, n,
                [i \in 1..Len(ChildrenOf(schema[rootNode])) |->
                    <<rootNode, ChildrenOf(schema[rootNode])[i]>>],
                {})

(* traversalResults[n].type === typeof nodeToTest                          *)
(*   || (typeof nodeToTest === "number" && ...type === "integer")          *)
TypeMatches(declared, type) ==
    declared = type \/ (type = "number" /\ declared = "integer")

(* verifyType(traversalResults, nodeToTest, node); the empty object has no *)
(* length, so the loop over it finds nothing.                              *)
verifyType(schema, traversalResults, type, node) ==
    IF node.kind = "SCALAR"
    THEN /\ traversalResults.kind = "entries"
         /\ \E i \in 1..Len(schema[traversalResults.key]) :
               TypeMatches(schema[traversalResults.key][i].type, type)
    ELSE TRUE

(* validateObject(nodeObject): Object.keys(nodeObject).length >= 1         *)
validateObject(schema, traversalResults) ==
    /\ traversalResults.kind = "entries"
    /\ Len(schema[traversalResults.key]) >= 1

UnknownKey == "Command not found in k8s"
SchemaMismatch == "Does not match the k8s model"
TypeMismatch == "Does not have the correct k8s type"

(* validate(node, keyValue, valueValue): the search made, the warnings     *)
(* added, and whether a TypeError ended it.                                *)
validate(schema, ast, n, keyValue, type) ==
    IF ~HasEntry(schema, keyValue)
    THEN [keyKnown |-> FALSE, search |-> Entries("", FALSE, {}),
          added |-> <<UnknownKey>>, fault |-> FALSE]
    ELSE LET traversalResults == traverseBackToLocation(schema, ast, n)
             objectOk == validateObject(schema, traversalResults)
             typeOk == verifyType(schema, traversalResults, type, ast[n])
         IN [keyKnown |-> TRUE, search |-> traversalResults,
             added |-> IF traversalResults.kind = "fault" THEN << >>
                       ELSE IF objectOk /\ typeOk THEN << >>
                       ELSE IF ~typeOk THEN <<TypeMismatch>>
                       ELSE <<SchemaMismatch>>,
             fault |-> traversalResults.kind = "fault"]

(* A visitor that tells the traversal to stay out of a subtree whose       *)
(* mapping drew a warning.                                                 *)
visitResult_StopOnWarning(added) == added = << >>

(* visit(node) ends with "return true".                                    *)
visitResult(added) == TRUE

RECURSIVE InSubtree(_, _, _)
InSubtree(ast, root, n) ==
    n # 0 /\ (ast[n].parent = root \/ InSubtree(ast, root, ast[n].parent))

(* traverse(node, visitor): children are traversed when visit returned     *)
(* true; otherwise the traversal goes on behind the node's subtree.        *)
NextNode(ast, n, descend) ==
    IF descend THEN n + 1
    ELSE LET behind == {m \in (n + 1)..Len(ast) : ~InSubtree(ast, n, m)}
         IN IF behind = {} THEN Len(ast) + 1
            ELSE CHOOSE m \in behind : \A k \in behind : m <= k

(* errorHandler.addErrorResult for each warning of a validate call.        *)
addErrorResults(list, n, added, line) ==
    list \o [i \in 1..Len(added) |->
               [node |-> n, message |-> added[i], line |-> line]]

NoValCall == [made |-> FALSE, node |-> 0, keyKnown |-> FALSE,
              search |-> Entries("", FALSE, {}), added |-> << >>,
              fault |-> FALSE]

(* The state after visit(node) validated node n with the given outcome.    *)
Validated(n, outcome, countLine) ==
    /\ valCall' = [made |-> TRUE, node |-> n, keyKnown |-> outcome.keyKnown,
                   search |-> outcome.search, added |-> outcome.added,
                   fault |-> outcome.fault]
    /\ validated' = validated \cup {n}
    /\ visited' = visited \cup {n}
    /\ errors' = addErrorResults(errors, n, outcome.added, lineCount - 1)
    /\ IF outcome.fault
       THEN /\ status' = "aborted"
            /\ UNCHANGED <<cursor, lineCount>>
       ELSE /\ lineCount' = IF countLine THEN lineCount + 1 ELSE lineCount
            /\ cursor' = NextNode(Ast, n, visitResult(outcome.added))
            /\ status' = IF cursor' > Len(Ast) THEN "done" ELSE "running"
    /\ UNCHANGED <<schemaId, astId, cacheVars, positionVars>>

(* visit, case Kind.SCALAR: validateScalar(node); lineCount += 1           *)
VisitScalar ==
    /\ status = "running"
    /\ Ast[cursor].kind = "SCALAR"
    /\ Validated(cursor,
                 validate(kuberSchema, Ast, cursor,
                          Ast[Ast[cursor].parent].key, Ast[cursor].type),
                 TRUE)

(* visit, case Kind.MAPPING: validateMapping(node)                         *)
VisitMapping ==
    /\ status = "running"
    /\ Ast[cursor].kind = "MAPPING"
    /\ Validated(cursor,
                 validate(kuberSchema, Ast, cursor, Ast[cursor].key, "string"),
                 FALSE)

(* visit, case Kind.MAP: lineCount += 1                                    *)
VisitMap ==
    /\ status = "running"
    /\ Ast[cursor].kind = "MAP"
    /\ lineCount' = lineCount + 1
    /\ visited' = visited \cup {cursor}
    /\ cursor' = NextNode(Ast, cursor, visitResult(<< >>))
    /\ status' = IF cursor' > Len(Ast) THEN "done" ELSE "running"
    /\ UNCHANGED <<schemaId, astId, errors, validated, valCall,
                   cacheVars, positionVars>>


(***************************************************************************)
(* Claims about the validator                                              *)
(***************************************************************************)

(* The key validate looks up for node n: its own key for a mapping, the    *)
(* parent mapping's key for a scalar.                                      *)
KeyOf(n) ==
    IF Ast[n].kind = "MAPPING" THEN Ast[n].key ELSE Ast[Ast[n].parent].key

WarningsOn(n) ==
    SelectSeq(errors, LAMBDA e : e.node = n)

(* C5: each validate call records at most one warning: UnknownKey when the *)
(* key has no entry; otherwise SchemaMismatch when the search result is    *)
(* empty, for scalars as for mappings; otherwise TypeMismatch when the     *)
(* type check fails; otherwise none.                                       *)
C5_WarningChoice ==
    (valCall.made /\ ~valCall.fault) =>
        /\ Len(valCall.added) <= 1
        /\ valCall.added =
             IF ~HasEntry(kuberSchema, KeyOf(valCall.node))
             THEN <<UnknownKey>>
             ELSE IF valCall.search.kind = "empty"
             THEN <<SchemaMismatch>>
             ELSE IF ~verifyType(kuberSchema, valCall.search,
                                 Ast[valCall.node].type, Ast[valCall.node])
             THEN <<TypeMismatch>>
             ELSE << >>

UnknownTopLevel(m) ==
    /\ Ast[m].kind = "MAPPING"
    /\ getParentNodes(Ast, m) = << >>
    /\ ~HasEntry(kuberSchema, Ast[m].key)

Subtree(m) == {n \in 1..Len(Ast) : InSubtree(Ast, m, n)}

C7_NeverAborts ==
    /\ status # "aborted"
    /\ valCall.made => ~valCall.fault
    /\ status = "done" =>
          \A n \in 1..Len(Ast) : Ast[n].kind # "MAP" => n \in validated

(* The keys from the top-level ancestor down to the key validated for n.   *)
KeyChain(n) ==
    IF Ast[n].kind = "MAPPING"
    THEN Append(Reverse(getParentNodes(Ast, n)), Ast[n].key)
    ELSE Reverse(getParentNodes(Ast, n))

DeclaredChild(schema, key, child) ==
    /\ HasEntry(schema, key)
    /\ \E i \in 1..Len(schema[key]) :
          \E j \in 1..Len(schema[key][i].children) :
              schema[key][i].children[j] = child

IsSchemaPath(schema, chain) ==
    /\ chain # << >>
    /\ HasEntry(schema, chain[1])
    /\ \A i \in 1..(Len(chain) - 1) :
          DeclaredChild(schema, chain[i], chain[i + 1])

IsPrefix(p, chain) ==
    Len(p) <= Len(chain) /\ \A i \in 1..Len(p) : p[i] = chain[i]

(* C10: for a node that reaches the breadth-first search, the result is    *)
(* the entries of the last key of its ancestor key chain when that chain   *)
(* is a path through declared children, and the empty result otherwise;    *)
(* only candidates on the chain are expanded.                              *)
C10_SearchFindsChain ==
    (valCall.made /\ valCall.keyKnown /\ valCall.search.bfs) =>
        /\ IF IsSchemaPath(kuberSchema, KeyChain(valCall.node))
           THEN /\ valCall.search.kind = "entries"
                /\ valCall.search.key = KeyOf(valCall.node)
           ELSE valCall.search.kind = "empty"
        /\ \A p \in valCall.search.expanded :
              IsPrefix(p, KeyChain(valCall.node))

(***************************************************************************)
(* Specifications                                                          *)
(***************************************************************************)

CacheIdle ==
    /\ cache = [u \in Uris |-> NoEntry]
    /\ call = NoCall
    /\ maxRequested = [u \in Uris |-> 0]
    /\ monotone = [u \in Uris |-> TRUE]

PositionIdle ==
    /\ docId = 1
    /\ posCall = NoPosCall

ValidatorIdle ==
    /\ schemaId = 1
    /\ astId = 1
    /\ cursor = 1
    /\ lineCount = 0
    /\ errors = << >>
    /\ status = "running"
    /\ visited = {}
    /\ validated = {}
    /\ valCall = NoValCall

InitCache == CacheIdle /\ PositionIdle /\ ValidatorIdle

NextCache == GetYamlDocument \/ Clear

SpecCache == InitCache /\ [][NextCache]_vars

InitPosition ==
    /\ CacheIdle
    /\ ValidatorIdle
    /\ docId \in DocIds
    /\ posCall = NoPosCall

NextPosition == GetNodeFromPosition \/ FindClosestNode

SpecPosition == InitPosition /\ [][NextPosition]_vars

(* A validator is constructed over a schema and traverses one document.    *)
InitValidator ==
    /\ CacheIdle
    /\ PositionIdle
    /\ schemaId \in 1..Len(Schemas)
    /\ astId \in 1..Len(Asts)
    /\ cursor = 1
    /\ lineCount = 0
    /\ errors = << >>
    /\ status = "running"
    /\ visited = {}
    /\ validated = {}
    /\ valCall = NoValCall

NextValidator == VisitScalar \/ VisitMapping \/ VisitMap

SpecValidator == InitValidator /\ [][NextValidator]_vars

====
